---- MODULE Spec2Model ----
(***************************************************************************)
(* CreatorStudio: the generation pipeline of App (handleGenerateAll,       *)
(* triggerImageGeneration, handleRegenerateSingle, updateImageState) and   *)
(* the retry policy of the Gemini service (withRetry), as a state machine. *)
(*                                                                         *)
(* JavaScript values are tuples: undefined is <<>>, the empty string is    *)
(* <<"">>, a prompt is <<key, version>>, a data URI is <<"data", ...>>.    *)
(* Numbers and strings that the code compares with === are strings with a  *)
(* type prefix ("n:429" is the number 429, "s:429" the string "429").      *)
(***************************************************************************)
EXTENDS Integers, Sequences, FiniteSets, TLC

VARIABLES images, isAnalyzing, runs, jobs, nRegen, faults, ev, rt

vars == <<images, isAnalyzing, runs, jobs, nRegen, faults, ev, rt>>

(* ---------------------------- bounds ---------------------------------- *)
\* generateAll invocations that start a run
MaxRuns == 2
\* handleRegenerateSingle invocations that start a render
MaxRegens == 1
\* distinct prompt sets the backend may derive
MaxVersions == 1
\* derivations and renders of the pipeline that meet a failure (the retries
\* withRetry makes within one of them may fail as well)
MaxFaults == 2
\* longest text typed into the context box
MaxInputLen == 2
\* largest `retries` argument tried on withRetry alone
MaxAttempts == 4

(* ---------------------------- values ---------------------------------- *)
NoVal == <<>>
EmptyStr == <<"">>

\* a guard on the value is missing
Truthy_NoGuard(v) == TRUE
Truthy(v) == v # NoVal /\ v # EmptyStr

Keys == {"linkedin", "twitter", "instagram", "blog"}

\* the instagram entry carries the wide ratio of the other three
PLATFORMS_AllWide ==
    << [key |-> "linkedin",  apiAspectRatio |-> "16:9"],
       [key |-> "twitter",   apiAspectRatio |-> "16:9"],
       [key |-> "instagram", apiAspectRatio |-> "16:9"],
       [key |-> "blog",      apiAspectRatio |-> "16:9"] >>

PLATFORMS ==
    << [key |-> "linkedin",  apiAspectRatio |-> "16:9"],
       [key |-> "twitter",   apiAspectRatio |-> "16:9"],
       [key |-> "instagram", apiAspectRatio |-> "1:1"],
       [key |-> "blog",      apiAspectRatio |-> "16:9"] >>

NumPlatforms == Len(PLATFORMS)

PlatformIndex(key) == CHOOSE n \in 1..NumPlatforms : PLATFORMS[n].key = key

Fields == {"status", "imageUrl", "prompt", "errorMsg"}

InitialImages ==
    [k \in Keys |-> [status |-> "idle", imageUrl |-> NoVal,
                     prompt |-> NoVal, errorMsg |-> NoVal]]

AnalyzeFailedMsg == <<"Failed to analyze context.">>
GenerationFailedMsg == <<"Generation failed.">>

(* ----------------------- updateImageState ----------------------------- *)
\* the record of the platform is replaced by the patch: fields the patch does
\* not name are lost
updateImageState_Replace(imgs, key, newState) ==
    [imgs EXCEPT ![key] =
        [f \in Fields |-> IF f \in DOMAIN newState THEN newState[f] ELSE NoVal]]
\* setImages(prev => ({...prev, [key]: {...prev[key], ...newState}}))
updateImageState(imgs, key, newState) ==
    [imgs EXCEPT ![key] =
        [f \in Fields |-> IF f \in DOMAIN newState THEN newState[f] ELSE imgs[key][f]]]

\* the iteration stops after the first platform of the table
ForEachPlatform_FirstOnly(imgs, patch, n) ==
    IF n > 1 THEN imgs
    ELSE updateImageState(imgs, PLATFORMS[n].key, patch[PLATFORMS[n].key])

\* PLATFORMS.forEach(p => updateImageState(p.key, patch(p.key))), folded in table order
RECURSIVE ForEachPlatform(_, _, _)
ForEachPlatform(imgs, patch, n) ==
    IF n > NumPlatforms THEN imgs
    ELSE ForEachPlatform(updateImageState(imgs, PLATFORMS[n].key, patch[PLATFORMS[n].key]),
                         patch, n + 1)

(* ------------------------------ errors -------------------------------- *)
Undef == "undefined"
Num429 == "n:429"
Num500 == "n:500"
Str429 == "s:429"
StrResourceExhausted == "s:RESOURCE_EXHAUSTED"

\* a thrown value: {status, code, message, error: {code}}; message is its words
Err(status, code, message, inner) ==
    [status |-> status, code |-> code, message |-> message, error |-> inner]

NoError == Err(Undef, Undef, NoVal, NoVal)

NoTextError == Err(Undef, Undef, <<"No", "text", "returned", "from", "Gemini">>, NoVal)
NoPartsError == Err(Undef, Undef, <<"No", "content", "parts", "returned">>, NoVal)
NoImageError == Err(Undef, Undef, <<"No", "image", "data", "found", "in", "response">>, NoVal)

QuotaShapedErrors ==
    { Err(Num429, Undef, NoVal, NoVal),
      Err(Undef, Num429, NoVal, NoVal),
      Err(Undef, Undef, <<"got", "status", "429">>, NoVal),
      Err(Undef, Undef, <<"quota", "exceeded">>, NoVal),
      Err(Undef, Undef, <<"RESOURCE_EXHAUSTED">>, NoVal),
      Err(StrResourceExhausted, Undef, NoVal, NoVal),
      Err(Undef, Undef, NoVal, <<Num429>>) }

OtherShapedErrors ==
    { NoTextError, NoPartsError, NoImageError,
      Err(Num500, Num500, <<"internal", "error">>, NoVal),
      Err(Str429, Undef, <<"bad", "request">>, NoVal),
      Err(Undef, Undef, NoVal, <<Num500>>),
      NoError }

Errors == QuotaShapedErrors \cup OtherShapedErrors

\* what the two operations of the pipeline are seen to throw: a rate-limit
\* rejection of the API call, or the operation's own `throw new Error(...)`
RateLimitError == Err(Num429, Undef, NoVal, NoVal)
DeriveErrors == {RateLimitError, NoTextError}
RenderErrors == {RateLimitError, NoPartsError, NoImageError}

\* String.prototype.includes on an optional message
includes(message, word) == \E n \in DOMAIN message : message[n] = word

isQuotaError(error) ==
    \/ error.status = Num429
    \/ error.code = Num429
    \/ includes(error.message, "429")
    \/ includes(error.message, "quota")
    \/ includes(error.message, "RESOURCE_EXHAUSTED")
    \/ error.status = StrResourceExhausted
    \/ (error.error # NoVal /\ error.error[1] = Num429)

(* ----------------------------- withRetry ------------------------------ *)
\* one attempt more than the default of withRetry
DefaultRetries_Four == 2 + 2
DefaultRetries == 3
DefaultInitialDelay == 2000

RECURSIVE Pow2(_)
Pow2(n) == IF n = 0 THEN 1 ELSE 2 * Pow2(n - 1)

\* the loop test `i < retries` at the top of each iteration
withRetryLoop(i, retries) == IF i < retries THEN "call" ELSE "throwLast"

\* the backoff exponent counts attempts from one
withRetryCatch_OneBasedExponent(i, retries, initialDelay, error) ==
    IF isQuotaError(error) /\ i < retries - 1
        THEN [act |-> "wait", delay |-> initialDelay * Pow2(i + 1)]
        ELSE [act |-> "throw", delay |-> 0]

\* every failure is retried, whatever its kind
withRetryCatch_RetriesAnyError(i, retries, initialDelay, error) ==
    IF i < retries - 1
        THEN [act |-> "wait", delay |-> initialDelay * Pow2(i)]
        ELSE [act |-> "throw", delay |-> 0]

\* the last attempt is not recognised: `i < retries` for `i < retries - 1`
withRetryCatch_OffByOne(i, retries, initialDelay, error) ==
    IF isQuotaError(error) /\ i < retries
        THEN [act |-> "wait", delay |-> initialDelay * Pow2(i)]
        ELSE [act |-> "throw", delay |-> 0]

\* no failure is retried: the catch block rethrows whatever it caught
withRetryCatch_NeverRetries(i, retries, initialDelay, error) ==
    [act |-> "throw", delay |-> 0]

\* the catch block of iteration i: back off and retry, or rethrow
withRetryCatch(i, retries, initialDelay, error) ==
    IF isQuotaError(error) /\ i < retries - 1
        THEN [act |-> "wait", delay |-> initialDelay * Pow2(i)]
        ELSE [act |-> "throw", delay |-> 0]

(* --------------------------- backend values --------------------------- *)
\* visualPrompts.platforms[key] of the v-th prompt set the backend derives
\* JSON.parse(text) is cast to VisualPrompts unchecked (line 115): besides the
\* well-formed prompt sets 1..MaxVersions the backend may answer with a prompt
\* set whose `platforms` lacks the entry of one platform (set MaxVersions + v is
\* set v without that entry), or with an object that has no `platforms` at all
Versions == 1..MaxVersions
PartialVersions == {MaxVersions + v : v \in Versions}
MissingKey == "blog"

visualPrompts(v, key) ==
    IF v \in PartialVersions
    THEN IF key = MissingKey THEN NoVal ELSE <<key, v - MaxVersions>>
    ELSE <<key, v>>

\* `data:${mimeType};base64,${data}` for the image rendered from a prompt
dataUri(prompt) == <<"data:image/png;base64">> \o prompt

(* ------------------------------ input --------------------------------- *)
Chars == {" ", "a"}
UserInputs == UNION {[1..n -> Chars] : n \in 0..MaxInputLen}
SelectedImages == {NoVal, <<"data:image/png;base64", "ref">>}

RECURSIVE trimStart(_)
trimStart(s) == IF s # <<>> /\ Head(s) = " " THEN trimStart(Tail(s)) ELSE s

RECURSIVE trimEnd(_)
trimEnd(s) == IF s # <<>> /\ s[Len(s)] = " " THEN trimEnd(SubSeq(s, 1, Len(s) - 1)) ELSE s

trim(s) == trimEnd(trimStart(s))

\* the guard tests the raw text: `!userInput` for `!userInput.trim()`
NothingToGenerate_NoTrim(userInput, selectedImage) ==
    userInput = <<>> /\ selectedImage = NoVal
\* `!userInput.trim() && !selectedImage`: the early return and the disabled prop
NothingToGenerate(userInput, selectedImage) ==
    trim(userInput) = <<>> /\ selectedImage = NoVal

(* ------------------------------ state --------------------------------- *)
Event(op, key, declined) == [op |-> op, key |-> key, declined |-> declined]
StepEvent == Event("step", "-", FALSE)

RunOwner(r) == [t |-> "run", id |-> r]
RegenOwner(n) == [t |-> "regen", id |-> n]

IdleRetry ==
    [st |-> "idle", retries |-> 0, initialDelay |-> 0, i |-> 0,
     invoked |-> 0, waits |-> <<>>, log |-> <<>>,
     lastError |-> NoError, thrown |-> NoError]

Init ==
    /\ images = InitialImages
    /\ isAnalyzing = FALSE
    /\ runs = <<>>
    /\ jobs = {}
    /\ nRegen = 0
    /\ faults = 0
    /\ ev = StepEvent
    /\ rt = IdleRetry

(* ----------------------- triggerImageGeneration ----------------------- *)
\* entering loading drops the image shown so far
LoadingPatch_ClearsImage(prompt) ==
    [status |-> "loading", prompt |-> prompt, imageUrl |-> NoVal]
LoadingPatch(prompt) == [status |-> "loading", prompt |-> prompt]
SuccessPatch(base64Image) == [status |-> "success", imageUrl |-> base64Image]
\* the catch of triggerImageGeneration records the message but forgets the status
RenderErrorPatch_KeepsStatus == [errorMsg |-> GenerationFailedMsg]
\* the catch of triggerImageGeneration shows the text of the backend's error
RenderErrorPatch_BackendText == [status |-> "error", errorMsg |-> NoImageError.message]
\* the catch of triggerImageGeneration sets the status but no message
RenderErrorPatch_NoMessage == [status |-> "error"]
RenderErrorPatch == [status |-> "error", errorMsg |-> GenerationFailedMsg]

\* the synchronous head of triggerImageGeneration, up to the await on generateImage
NewJob(owner, key, prompt, aspectRatio) ==
    [owner |-> owner, key |-> key, prompt |-> prompt, aspectRatio |-> aspectRatio,
     i |-> 0, st |-> "op"]

\* the `await` of line 310 is missing: the loop goes on to its pacing delay
AfterTrigger_NoAwait == "pace"
\* where handleGenerateAll stands after calling triggerImageGeneration: it awaits it
AfterTrigger == "render"

\* triggerImageGeneration settles with the image: line 330
RenderSuccessImages(imgs, j) == updateImageState(imgs, j.key, SuccessPatch(dataUri(j.prompt)))

\* triggerImageGeneration has no catch of its own: the rejection reaches the
\* catch of handleGenerateAll, which marks every platform
RenderFailureImages_Uncaught(imgs, j) ==
    ForEachPlatform(imgs, [k \in Keys |-> [status |-> "error", errorMsg |-> AnalyzeFailedMsg]], 1)
\* triggerImageGeneration settles in its catch: line 332
RenderFailureImages(imgs, j) == updateImageState(imgs, j.key, RenderErrorPatch)

\* the delay is a tenth of what the loop is meant to wait
PacingDelay_Short == 1500 \div 10
\* `setTimeout(resolve, 1500)` of line 313
PacingDelay == 1500

\* the loop is left as soon as a render has settled
ResumeRuns_Breaks(rs, j) ==
    [r \in DOMAIN rs |->
        IF /\ j.owner = RunOwner(r)
           /\ rs[r].pc = "render"
           /\ rs[r].idx = PlatformIndex(j.key)
        THEN [rs[r] EXCEPT !.pc = "done"]
        ELSE rs[r]]

\* the run that awaits job j resumes when the job's promise settles, and goes on
\* to the pacing delay of line 313
ResumeRuns(rs, j) ==
    [r \in DOMAIN rs |->
        IF /\ j.owner = RunOwner(r)
           /\ rs[r].pc = "render"
           /\ rs[r].idx = PlatformIndex(j.key)
        THEN [rs[r] EXCEPT !.pc = "pace", !.timer = PacingDelay]
        ELSE rs[r]]

\* generateImage resolved: line 330
RenderSucceeds(j) ==
    /\ j.st = "op"
    /\ images' = RenderSuccessImages(images, j)
    /\ jobs' = jobs \ {j}
    /\ runs' = ResumeRuns(runs, j)
    /\ ev' = StepEvent
    /\ UNCHANGED <<isAnalyzing, nRegen, faults, rt>>

\* the backend call of attempt j.i failed: withRetry backs off, or generateImage
\* rejects and the catch of triggerImageGeneration runs (line 332)
RenderFails(j, error) ==
    /\ j.st = "op"
    /\ j.i = 0 => faults < MaxFaults
    /\ faults' = IF j.i = 0 THEN faults + 1 ELSE faults
    /\ LET d == withRetryCatch(j.i, DefaultRetries, DefaultInitialDelay, error) IN
        IF d.act = "wait"
        THEN /\ jobs' = (jobs \ {j}) \cup {[j EXCEPT !.st = "wait"]}
             /\ UNCHANGED <<images, runs>>
        ELSE /\ images' = RenderFailureImages(images, j)
             /\ jobs' = jobs \ {j}
             /\ runs' = ResumeRuns(runs, j)
    /\ ev' = StepEvent
    /\ UNCHANGED <<isAnalyzing, nRegen, rt>>

\* the backoff timer of withRetry fired: next iteration of the loop
RenderBackoffElapsed(j) ==
    /\ j.st = "wait"
    /\ withRetryLoop(j.i + 1, DefaultRetries) = "call"
    /\ jobs' = (jobs \ {j}) \cup {[j EXCEPT !.i = j.i + 1, !.st = "op"]}
    /\ ev' = StepEvent
    /\ UNCHANGED <<images, isAnalyzing, runs, nRegen, faults, rt>>

(* -------------------------- handleGenerateAll ------------------------- *)
\* the reset forgets to clear the message of the previous failure
ResetPatch_KeepsError == [status |-> "idle"]
\* the reset shows every platform as loading while the context is analysed
ResetPatch_ToLoading == [status |-> "loading", errorMsg |-> NoVal]
\* the reset also forgets the prompts of the previous run
ResetPatch_ClearsPrompt == [status |-> "idle", errorMsg |-> NoVal, prompt |-> NoVal]
ResetPatch == [status |-> "idle", errorMsg |-> NoVal]
\* the catch of handleGenerateAll records the message but forgets the status
AnalyzeErrorPatch_KeepsStatus == [errorMsg |-> AnalyzeFailedMsg]
AnalyzeErrorPatch == [status |-> "error", errorMsg |-> AnalyzeFailedMsg]

\* pc: where the handler stands; i: attempt of the derivation; idx: platform of
\* the loop; vp: the prompt set derived; timer: the pacing delay being waited for
NewRun == [pc |-> "derive", i |-> 0, idx |-> 0, vp |-> 0, derived |-> FALSE, timer |-> 0]

\* the Generate button is disabled while isAnalyzing (isLoading)
GenerateEnabled == ~isAnalyzing

\* lines 284-293: the guard, the reset, and the call of generateVisualPrompts.
\* With nothing to generate the button is disabled and the handler returns at
\* once: either way the press changes nothing.
HandleGenerateAll(userInput, selectedImage) ==
    /\ GenerateEnabled
    /\ IF NothingToGenerate(userInput, selectedImage)
       THEN /\ ev' = Event("generateAll", "-", TRUE)
            /\ UNCHANGED <<images, isAnalyzing, runs>>
       ELSE /\ Len(runs) < MaxRuns
            /\ isAnalyzing' = TRUE
            /\ images' = ForEachPlatform(images, [k \in Keys |-> ResetPatch], 1)
            /\ runs' = Append(runs, NewRun)
            /\ ev' = Event("generateAll", "-", FALSE)
    /\ UNCHANGED <<jobs, nRegen, faults, rt>>

\* one iteration of the for-of loop up to its await: lines 307-310
StartRender(imgs, r, n, v) ==
    LET platform == PLATFORMS[n]
        prompt == visualPrompts(v, platform.key)
    IN  /\ images' = updateImageState(imgs, platform.key, LoadingPatch(prompt))
        /\ jobs' = jobs \cup {NewJob(RunOwner(r), platform.key, prompt, platform.apiAspectRatio)}
        /\ runs' = [runs EXCEPT ![r] = [@ EXCEPT !.pc = AfterTrigger, !.idx = n,
                                                !.vp = v, !.derived = TRUE, !.timer = 0]]

\* generateVisualPrompts resolved with prompt set v: lines 295-310
DeriveSucceeds(r, v) ==
    /\ runs[r].pc = "derive"
    /\ isAnalyzing' = FALSE
    /\ StartRender(ForEachPlatform(images, [k \in Keys |-> LoadingPatch(visualPrompts(v, k))], 1),
                   r, 1, v)
    /\ ev' = StepEvent
    /\ UNCHANGED <<nRegen, faults, rt>>

\* generateVisualPrompts resolved with a prompt set that lacks one platform's
\* prompt: the handler goes on as after any success, with `undefined` for it
DeriveReturnsPartial(r, v) ==
    /\ runs[r].pc = "derive"
    /\ faults < MaxFaults
    /\ faults' = faults + 1
    /\ isAnalyzing' = FALSE
    /\ StartRender(ForEachPlatform(images, [k \in Keys |-> LoadingPatch(visualPrompts(v, k))], 1),
                   r, 1, v)
    /\ ev' = StepEvent
    /\ UNCHANGED <<nRegen, rt>>

\* generateVisualPrompts resolved with an object without `platforms`: after
\* setIsAnalyzing(false) the first `visualPrompts.platforms[p.key]` (line 301)
\* throws a TypeError, and the catch of lines 316-321 runs
DeriveReturnsBare(r) ==
    /\ runs[r].pc = "derive"
    /\ faults < MaxFaults
    /\ faults' = faults + 1
    /\ isAnalyzing' = FALSE
    /\ images' = ForEachPlatform(images, [k \in Keys |-> AnalyzeErrorPatch], 1)
    /\ runs' = [runs EXCEPT ![r] = [@ EXCEPT !.pc = "done", !.i = 0]]
    /\ ev' = StepEvent
    /\ UNCHANGED <<jobs, nRegen, rt>>

\* the derivation call of attempt i failed: withRetry backs off, or
\* generateVisualPrompts rejects and the catch of handleGenerateAll runs (316-321)
DeriveFails(r, error) ==
    /\ runs[r].pc = "derive"
    /\ runs[r].i = 0 => faults < MaxFaults
    /\ faults' = IF runs[r].i = 0 THEN faults + 1 ELSE faults
    /\ LET d == withRetryCatch(runs[r].i, DefaultRetries, DefaultInitialDelay, error) IN
        IF d.act = "wait"
        THEN /\ runs' = [runs EXCEPT ![r] = [@ EXCEPT !.pc = "deriveWait"]]
             /\ UNCHANGED <<images, isAnalyzing>>
        ELSE /\ isAnalyzing' = FALSE
             /\ images' = ForEachPlatform(images, [k \in Keys |-> AnalyzeErrorPatch], 1)
             /\ runs' = [runs EXCEPT ![r] = [@ EXCEPT !.pc = "done", !.i = 0]]
    /\ ev' = StepEvent
    /\ UNCHANGED <<jobs, nRegen, rt>>

DeriveBackoffElapsed(r) ==
    /\ runs[r].pc = "deriveWait"
    /\ withRetryLoop(runs[r].i + 1, DefaultRetries) = "call"
    /\ runs' = [runs EXCEPT ![r] = [@ EXCEPT !.pc = "derive", !.i = runs[r].i + 1]]
    /\ ev' = StepEvent
    /\ UNCHANGED <<images, isAnalyzing, jobs, nRegen, faults, rt>>

\* the pacing timer of line 313 fired: next platform, or the run returns
PaceElapsed(r) ==
    /\ runs[r].pc = "pace"
    /\ IF runs[r].idx < NumPlatforms
       THEN StartRender(images, r, runs[r].idx + 1, runs[r].vp)
       ELSE /\ runs' = [runs EXCEPT ![r] = [@ EXCEPT !.pc = "done", !.timer = 0]]
            /\ UNCHANGED <<images, jobs>>
    /\ ev' = StepEvent
    /\ UNCHANGED <<isAnalyzing, nRegen, faults, rt>>

(* ----------------------- handleRegenerateSingle ----------------------- *)
\* the regenerate button is rendered for a successful platform only
RegenerateEnabled_SuccessOnly(state) == state.status = "success"
\* the regenerate button is rendered (ImageCard line 86) and not disabled (line 91)
RegenerateEnabled(state) ==
    /\ \/ state.status = "success"
       \/ state.status = "error"
       \/ (state.status = "loading" /\ Truthy(state.prompt))
    /\ state.status # "loading"

HandleRegenerateSingle(key) ==
    LET currentState == images[key]
        platformConfig == PLATFORMS[PlatformIndex(key)]
    IN  /\ RegenerateEnabled(currentState)
        /\ IF Truthy(currentState.prompt)
           THEN /\ nRegen < MaxRegens
                /\ nRegen' = nRegen + 1
                /\ images' = updateImageState(images, key, LoadingPatch(currentState.prompt))
                /\ jobs' = jobs \cup {NewJob(RegenOwner(nRegen + 1), key, currentState.prompt,
                                             platformConfig.apiAspectRatio)}
                /\ ev' = Event("regenerateOne", key, FALSE)
           ELSE /\ ev' = Event("regenerateOne", key, TRUE)
                /\ UNCHANGED <<images, jobs, nRegen>>
        /\ UNCHANGED <<isAnalyzing, runs, faults, rt>>

(* --------------------------- handleDownloadAll ------------------------ *)
\* the moments at which Download All may be pressed: Date.now() of line 351
MaxTimestamp == 2
Timestamps == 1..MaxTimestamp

\* `imageUrl.split(',')[1]`: what follows the comma of the data URI, undefined
\* for a string without one
base64Data(imageUrl) == IF Len(imageUrl) > 1 THEN Tail(imageUrl) ELSE NoVal

\* the name of a platform's file leaves out the platform
fileName_NoKey(key, timestamp) ==
    <<"creator-studio-", "-", ToString(timestamp), ".png">>
\* `creator-studio-${platform.key}-${timestamp}.png`
fileName(key, timestamp) ==
    <<"creator-studio-", key, "-", ToString(timestamp), ".png">>

\* `creator-studio-assets-${timestamp}.zip`
archiveName(timestamp) == <<"creator-studio-assets-", ToString(timestamp), ".zip">>

EmptyZip == [files |-> <<>>, count |-> 0]

\* zip.file(name, data): a file of the same name is replaced
zipFile(zip, name, data) ==
    [files |-> Append(SelectSeq(zip.files, LAMBDA f : f.name # name),
                      [name |-> name, data |-> data]),
     count |-> zip.count + 1]

\* the forEach of lines 354-364, folded in table order from platform n on
RECURSIVE zipPlatforms(_, _, _, _)
zipPlatforms(zip, imgs, timestamp, n) ==
    IF n > NumPlatforms THEN zip
    ELSE LET platform == PLATFORMS[n]
             imgState == imgs[platform.key]
             add == /\ imgState.status = "success"
                    /\ Truthy(imgState.imageUrl)
                    /\ Truthy(base64Data(imgState.imageUrl))
         IN  zipPlatforms(IF add THEN zipFile(zip, fileName(platform.key, timestamp),
                                              base64Data(imgState.imageUrl))
                                 ELSE zip,
                          imgs, timestamp, n + 1)

\* line 382: the Download All button is rendered only when this holds
hasSuccessfulImages == \E k \in Keys : images[k].status = "success"

\* what the press gave the browser to download: the archive and its files
DownloadEvent(timestamp, zip) ==
    [op |-> "downloadAll", key |-> "-", declined |-> ~(zip.count > 0),
     timestamp |-> timestamp,
     download |-> IF zip.count > 0 THEN archiveName(timestamp) ELSE NoVal,
     files |-> IF zip.count > 0 THEN zip.files ELSE <<>>]

\* lines 346-380, behind the button of lines 508-520. The bundle is filled from
\* the table of the render in which the button was pressed, before the await of
\* generateAsync; the archive is then handed to the browser (link.click).
\* The presses are bounded with the runs: none after the last generateAll.
HandleDownloadAll(timestamp) ==
    /\ hasSuccessfulImages
    /\ Len(runs) < MaxRuns
    /\ ev' = DownloadEvent(timestamp, zipPlatforms(EmptyZip, images, timestamp, 1))
    /\ UNCHANGED <<images, isAnalyzing, runs, jobs, nRegen, faults, rt>>

(* --------------------------- specification ---------------------------- *)
Next ==
    \/ \E userInput \in UserInputs, selectedImage \in SelectedImages :
            HandleGenerateAll(userInput, selectedImage)
    \/ \E r \in DOMAIN runs, v \in Versions : DeriveSucceeds(r, v)
    \/ \E r \in DOMAIN runs, error \in DeriveErrors : DeriveFails(r, error)
    \/ \E r \in DOMAIN runs : DeriveBackoffElapsed(r)
    \/ \E r \in DOMAIN runs : PaceElapsed(r)
    \/ \E j \in jobs : RenderSucceeds(j)
    \/ \E j \in jobs, error \in RenderErrors : RenderFails(j, error)
    \/ \E j \in jobs : RenderBackoffElapsed(j)
    \/ \E key \in Keys : HandleRegenerateSingle(key)

Spec == Init /\ [][Next]_vars

\* every backend call eventually returns or fails, and every timer fires: a step
\* of the backend or of a timer that stays possible is eventually taken
BackendStep ==
    \/ \E r \in DOMAIN runs, v \in Versions : DeriveSucceeds(r, v)
    \/ \E r \in DOMAIN runs, error \in DeriveErrors : DeriveFails(r, error)
    \/ \E r \in DOMAIN runs : DeriveBackoffElapsed(r)
    \/ \E r \in DOMAIN runs : PaceElapsed(r)
    \/ \E j \in jobs : RenderSucceeds(j)
    \/ \E j \in jobs, error \in RenderErrors : RenderFails(j, error)
    \/ \E j \in jobs : RenderBackoffElapsed(j)

SpecLive == Spec /\ WF_vars(BackendStep)

\* the pipeline with a backend whose derivation answers need not fit the schema
NextParse ==
    \/ Next
    \/ \E r \in DOMAIN runs, v \in PartialVersions : DeriveReturnsPartial(r, v)
    \/ \E r \in DOMAIN runs : DeriveReturnsBare(r)

SpecParse == Init /\ [][NextParse]_vars

\* the pipeline together with the Download All button
NextDownload ==
    \/ Next
    \/ \E timestamp \in Timestamps : HandleDownloadAll(timestamp)

SpecDownload == Init /\ [][NextDownload]_vars

(* ------------------------ withRetry on its own ------------------------ *)
\* withRetry(operation, retries, initialDelay) driven by an arbitrary operation:
\* rt.log is what the operation did on each invocation, rt.waits the backoff
\* delays slept, rt.thrown the value withRetry rejected with.
InitialDelays == {DefaultInitialDelay, 500}
RetryArgs == 1..MaxAttempts

Resolved == [ok |-> TRUE, error |-> NoError]
Rejected(error) == [ok |-> FALSE, error |-> error]

RetryInvoke(retries, initialDelay) ==
    /\ rt.st = "idle"
    /\ rt' = IF withRetryLoop(0, retries) = "call"
             THEN [rt EXCEPT !.st = "op", !.retries = retries,
                             !.initialDelay = initialDelay, !.invoked = 1]
             ELSE [rt EXCEPT !.st = "thrown", !.retries = retries,
                             !.initialDelay = initialDelay]
    /\ UNCHANGED <<images, isAnalyzing, runs, jobs, nRegen, faults, ev>>

RetryOperationResolves ==
    /\ rt.st = "op"
    /\ rt' = [rt EXCEPT !.st = "returned", !.log = Append(rt.log, Resolved)]
    /\ UNCHANGED <<images, isAnalyzing, runs, jobs, nRegen, faults, ev>>

RetryOperationRejects(error) ==
    /\ rt.st = "op"
    /\ LET d == withRetryCatch(rt.i, rt.retries, rt.initialDelay, error) IN
        rt' = IF d.act = "wait"
              THEN [rt EXCEPT !.st = "wait", !.log = Append(rt.log, Rejected(error)),
                              !.waits = Append(rt.waits, d.delay), !.lastError = error]
              ELSE [rt EXCEPT !.st = "thrown", !.log = Append(rt.log, Rejected(error)),
                              !.lastError = error, !.thrown = error]
    /\ UNCHANGED <<images, isAnalyzing, runs, jobs, nRegen, faults, ev>>

\* `continue`: i++ and the loop test; past the loop, `throw lastError`
RetryBackoffElapsed ==
    /\ rt.st = "wait"
    /\ rt' = IF withRetryLoop(rt.i + 1, rt.retries) = "call"
             THEN [rt EXCEPT !.st = "op", !.i = rt.i + 1, !.invoked = rt.invoked + 1]
             ELSE [rt EXCEPT !.st = "thrown", !.i = rt.i + 1, !.thrown = rt.lastError]
    /\ UNCHANGED <<images, isAnalyzing, runs, jobs, nRegen, faults, ev>>

NextRetry ==
    \/ \E retries \in RetryArgs, initialDelay \in InitialDelays :
            RetryInvoke(retries, initialDelay)
    \/ RetryOperationResolves
    \/ \E error \in Errors : RetryOperationRejects(error)
    \/ RetryBackoffElapsed

SpecRetry == Init /\ [][NextRetry]_vars

(* ------------------------------ claims -------------------------------- *)
NonEmpty(v) == v # NoVal /\ v # EmptyStr

\* nothing that was started is still running
Quiescent == jobs = {} /\ \A r \in DOMAIN runs : runs[r].pc = "done"

Settled(state) ==
    \/ state.status = "success" /\ NonEmpty(state.imageUrl)
    \/ state.status = "error" /\ NonEmpty(state.errorMsg)

\* C1: once a generateAll run whose derivation succeeded has returned and nothing
\* else is running, every platform is success with an image or error with a
\* message; none is loading or idle.
C1_SettledAfterGenerateAll ==
    (Quiescent /\ \E r \in DOMAIN runs : runs[r].derived)
        => \A k \in Keys : Settled(images[k])

C1_Witness ==
    /\ Quiescent
    /\ Len(runs) = 1 /\ runs[1].derived /\ nRegen = 0
    /\ images["twitter"].status = "error"
    /\ \A k \in Keys \ {"twitter"} : images[k].status = "success"

JobsOf(js, r) == {j \in js : j.owner = RunOwner(r)}

\* jobs of js that were not in flight in the state with jobs js0
Issued(js0, js) == {j \in js : ~ \E j0 \in js0 : j0.owner = j.owner /\ j0.key = j.key}

\* C2: a run issues its render calls in table order, one at a time: the call for
\* the next platform is issued only when the run has no render in flight, and it
\* is the call for the platform that follows the last one rendered.
C2_SequentialRenders ==
    [][\A r \in DOMAIN runs' :
          /\ Cardinality(JobsOf(jobs', r)) <= 1
          /\ \A j \in Issued(jobs, JobsOf(jobs', r)) :
                /\ r \in DOMAIN runs
                /\ JobsOf(jobs, r) = {}
                /\ PlatformIndex(j.key) = runs[r].idx + 1
                /\ PlatformIndex(j.key) = runs'[r].idx]_vars

C2_Witness ==
    \E r \in DOMAIN runs :
        /\ runs[r].idx = NumPlatforms
        /\ JobsOf(jobs, r) # {}
        /\ \A j \in JobsOf(jobs, r) : j.key = PLATFORMS[NumPlatforms].key

\* a generateAll that starts a run in this step, after an earlier run
StartsAgain == Len(runs') > Len(runs) /\ Len(runs) >= 1

\* C3 (as claimed): when generateAll is called again, every platform has errorMsg
\* and imageUrl cleared by the time the first backend call of the new run is issued.
C3_ResetClearsErrorAndImage ==
    [][StartsAgain =>
         \A k \in Keys : images'[k].errorMsg = NoVal /\ images'[k].imageUrl = NoVal]_vars

\* C3 (amended): when generateAll is called again, every platform is idle with
\* errorMsg cleared by the time the first backend call of the new run is issued;
\* imageUrl is left as it was.
C3_ResetClearsErrorKeepsImage ==
    [][StartsAgain =>
         \A k \in Keys : /\ images'[k].status = "idle"
                         /\ images'[k].errorMsg = NoVal
                         /\ images'[k].imageUrl = images[k].imageUrl]_vars

C3_Witness ==
    /\ Len(runs) = 2 /\ runs[2].pc = "derive" /\ runs[2].i = 0
    /\ ev = Event("generateAll", "-", FALSE)
    /\ images["linkedin"].imageUrl # NoVal
    /\ images["twitter"].imageUrl = NoVal /\ images["twitter"].prompt # NoVal
    /\ \A k \in Keys : images[k].status = "idle" /\ images[k].errorMsg = NoVal

\* C4: when the derivation of a run fails, that step leaves all four platforms in
\* error with one and the same message, and a run whose derivation has not
\* succeeded never has a render call.
C4_DerivationFailureIsGlobal ==
    [][/\ \A r \in DOMAIN runs :
            (runs[r].pc = "derive" /\ runs'[r].pc = "done") =>
                /\ ~ runs'[r].derived
                /\ \A k \in Keys : /\ images'[k].status = "error"
                                   /\ NonEmpty(images'[k].errorMsg)
                                   /\ images'[k].errorMsg = images'["linkedin"].errorMsg
       /\ \A r \in DOMAIN runs' : ~ runs'[r].derived => JobsOf(jobs', r) = {}]_vars

C4_Witness ==
    \E r \in DOMAIN runs :
        /\ runs[r].pc = "done" /\ ~ runs[r].derived
        /\ \A k \in Keys : images[k].status = "error" /\ images[k].errorMsg = AnalyzeFailedMsg

\* job j of the pre-state is no longer in flight in the post-state
Gone(j) == ~ \E j1 \in jobs' : j1.owner = j.owner /\ j1.key = j.key

\* C5: the step in which the render of platform k of a run fails (or succeeds)
\* changes the record of platform k only, and after a failure the run goes on to
\* its pacing delay for k; a run whose derivation succeeded returns only after the
\* last platform of the table.
C5_RenderFailureIsLocal ==
    [][/\ \A r \in DOMAIN runs : \A j \in JobsOf(jobs, r) :
            /\ (Gone(j) /\ images'[j.key].status = "error") =>
                    /\ \A k \in Keys \ {j.key} : images'[k] = images[k]
                    /\ images'[j.key].errorMsg = GenerationFailedMsg
                    /\ runs'[r].pc = "pace"
                    /\ runs'[r].idx = PlatformIndex(j.key)
            /\ (Gone(j) /\ images'[j.key].status = "success") =>
                    /\ \A k \in Keys \ {j.key} : images'[k] = images[k]
                    /\ images'[j.key].imageUrl = dataUri(j.prompt)
       /\ \A r \in DOMAIN runs' :
            (runs'[r].pc = "done" /\ runs'[r].derived) => runs'[r].idx = NumPlatforms]_vars

C5_Witness ==
    /\ Len(runs) = 1 /\ runs[1].pc = "done" /\ runs[1].idx = NumPlatforms
    /\ jobs = {} /\ nRegen = 0
    /\ images["instagram"].status = "error"
    /\ images["instagram"].errorMsg = GenerationFailedMsg
    /\ \A k \in {"linkedin", "twitter", "blog"} :
            images[k].status = "success" /\ images[k].imageUrl = dataUri(images[k].prompt)

(* --------------------------- withRetry claims -------------------------- *)
RECURSIVE SumSeq(_)
SumSeq(q) == IF q = <<>> THEN 0 ELSE Head(q) + SumSeq(Tail(q))

\* the first n invocations of the operation failed with a rate-limit shaped error
QuotaFailures(n) ==
    \A m \in 1..n : ~ rt.log[m].ok /\ rt.log[m].error \in QuotaShapedErrors

\* C6: while the operation has only failed with quota errors, fewer times than
\* maxAttempts, withRetry keeps going; when it then succeeds after f such
\* failures withRetry has invoked it f+1 times, has returned, and has slept
\* initialDelay * 2^i before retry i (6000 ms in all for f = 2 with the defaults).
C6_FirstSuccessAfterBackoff ==
    LET n == Len(rt.log) IN
    /\ (rt.st # "idle" /\ QuotaFailures(n) /\ n < rt.retries) =>
            \/ rt.st = "op" /\ rt.invoked = n + 1
            \/ rt.st = "wait" /\ rt.invoked = n
    /\ (n >= 1 /\ rt.log[n].ok /\ QuotaFailures(n - 1)) =>
            /\ rt.st = "returned"
            /\ rt.invoked = n
            /\ rt.waits = [m \in 1..(n - 1) |-> rt.initialDelay * 2^(m - 1)]
            /\ (n = 3 /\ rt.retries = DefaultRetries /\ rt.initialDelay = DefaultInitialDelay)
                    => SumSeq(rt.waits) = 6000

C6_Witness ==
    /\ rt.st = "returned"
    /\ rt.retries = DefaultRetries /\ rt.initialDelay = DefaultInitialDelay
    /\ Len(rt.log) = 3 /\ QuotaFailures(2) /\ rt.log[3].ok
    /\ rt.invoked = 3
    /\ rt.waits = <<2000, 4000>>

\* C7: a failure that is not a quota error is the last thing withRetry observes:
\* it is rethrown at once, with no backoff wait and no further invocation,
\* on whichever attempt it happens.
C7_NoRetryOnOtherErrors ==
    \A n \in 1..Len(rt.log) :
        (~ rt.log[n].ok /\ rt.log[n].error \in OtherShapedErrors) =>
            /\ n = Len(rt.log)
            /\ rt.st = "thrown"
            /\ rt.thrown = rt.log[n].error
            /\ rt.invoked = n
            /\ Len(rt.waits) = n - 1

C7_Witness ==
    /\ rt.st = "thrown"
    /\ rt.retries = DefaultRetries
    /\ Len(rt.log) = 2 /\ QuotaFailures(1)
    /\ rt.log[2].error = NoImageError
    /\ rt.thrown = NoImageError
    /\ rt.invoked = 2

\* C8: withRetry never invokes the operation more than maxAttempts times; when
\* all maxAttempts invocations failed with quota errors it has slept
\* maxAttempts-1 times and rejects with the last failure it observed.
C8_BoundedAttempts ==
    /\ rt.invoked <= rt.retries
    /\ Len(rt.log) <= rt.retries
    /\ (rt.st # "idle" /\ Len(rt.log) = rt.retries /\ QuotaFailures(rt.retries)) =>
            /\ rt.st = "thrown"
            /\ rt.invoked = rt.retries
            /\ Len(rt.waits) = rt.retries - 1
            /\ rt.thrown = rt.log[rt.retries].error

C8_Witness ==
    /\ rt.st = "thrown"
    /\ rt.retries = DefaultRetries
    /\ Len(rt.log) = DefaultRetries /\ QuotaFailures(DefaultRetries)
    /\ rt.log[1].error # rt.log[DefaultRetries].error
    /\ rt.thrown = rt.log[DefaultRetries].error
    /\ Len(rt.waits) = 2

(* ----------------------- regenerate and success ------------------------ *)
\* C9: a call of regenerateOne(key) on a platform whose prompt is absent or empty
\* changes no platform's record, starts no render and leaves every run as it was.
C9_RegenerateWithoutPromptIsNoOp ==
    [][\A k \in Keys :
          (ev'.op = "regenerateOne" /\ ev'.key = k /\ ~ NonEmpty(images[k].prompt)) =>
                /\ images' = images
                /\ jobs' = jobs
                /\ runs' = runs
                /\ nRegen' = nRegen]_vars

C9_Witness ==
    \E k \in Keys :
        /\ ev = Event("regenerateOne", k, TRUE)
        /\ images[k].status = "error"
        /\ images[k].prompt = NoVal
        /\ jobs = {}

\* C10 (as claimed): a platform in success has imageUrl set and errorMsg absent.
C10_SuccessHasImageAndNoError ==
    \A k \in Keys :
        images[k].status = "success" =>
            NonEmpty(images[k].imageUrl) /\ images[k].errorMsg = NoVal

(* ------------------------- error and stale image ----------------------- *)
\* a render of platform k that was in flight has settled with an image in this step
RenderSettledOk(j, k) == j.key = k /\ Gone(j) /\ images'[k].status = "success"

\* C11: a platform in error has errorMsg set, and imageUrl is absent or the payload
\* of that platform's most recent successful render: imageUrl starts absent, is
\* written only by the step in which a render of that platform succeeds, with
\* that render's payload, and is left alone by every other step (so also by the
\* failures that put the platform in error).
C11_ErrorHasMessageAndLastImage ==
    [][\A k \in Keys :
          /\ images'[k].status = "error" => NonEmpty(images'[k].errorMsg)
          /\ \A j \in jobs : RenderSettledOk(j, k) => images'[k].imageUrl = dataUri(j.prompt)
          /\ images'[k].imageUrl # images[k].imageUrl => \E j \in jobs : RenderSettledOk(j, k)]_vars

C11_Witness ==
    \E k \in Keys :
        /\ images[k].status = "error"
        /\ images[k].errorMsg = GenerationFailedMsg
        /\ images[k].imageUrl = dataUri(images[k].prompt)
        /\ nRegen = 1
        /\ \E k2 \in Keys \ {k} : images[k2].status = "error" /\ images[k2].imageUrl = NoVal

(* ------------------------- generateAll declined ------------------------ *)
\* the text is empty or consists of white space only
Blank(userInput) == \A n \in DOMAIN userInput : userInput[n] = " "

\* C12: a step of generateAll with an empty or white-space-only context and no
\* reference image changes no platform's record, does not raise isAnalyzing, and
\* issues neither a derivation call (no new run) nor a render call.
C12_GenerateAllWithoutInputIsNoOp ==
    [][\A userInput \in UserInputs :
          (Blank(userInput) /\ HandleGenerateAll(userInput, NoVal)) =>
                /\ images' = images
                /\ isAnalyzing' = isAnalyzing
                /\ runs' = runs
                /\ jobs' = jobs]_vars

C12_Witness ==
    /\ ev = Event("generateAll", "-", TRUE)
    /\ ~ isAnalyzing
    /\ Len(runs) = 1 /\ runs[1].pc = "done"
    /\ jobs = {}
    /\ images["linkedin"].status = "success"
    /\ images["blog"].status = "error"

(* ----------------------- arguments of the render call ------------------ *)
\* the aspect ratio the platform table is specified to hold
ConfiguredAspectRatio(key) == IF key = "instagram" THEN "1:1" ELSE "16:9"

\* C13: every render call of a generateAll run carries the prompt that the prompt
\* set derived for that run holds for the call's own platform, which is no other
\* platform's prompt, and the platform's configured aspect ratio: 16:9 for
\* linkedin, twitter and blog, 1:1 for instagram.
C13_RenderGetsOwnPromptAndRatio ==
    \A r \in DOMAIN runs : \A j \in JobsOf(jobs, r) :
        /\ runs[r].derived
        /\ j.prompt = visualPrompts(runs[r].vp, j.key)
        /\ \A k \in Keys \ {j.key} : j.prompt # visualPrompts(runs[r].vp, k)
        /\ j.aspectRatio = ConfiguredAspectRatio(j.key)

C13_Witness ==
    \E r \in DOMAIN runs : \E j \in JobsOf(jobs, r) :
        /\ j.key = "instagram"
        /\ j.prompt = visualPrompts(runs[r].vp, "instagram")
        /\ j.aspectRatio = "1:1"
        /\ images["twitter"].status = "error"

(* ------------------------ the reset of generateAll --------------------- *)
\* some run is waiting for its prompt derivation to return
Deriving(rs) == \E r \in DOMAIN rs : rs[r].pc \in {"derive", "deriveWait"}

\* nothing but a prompt derivation is in progress
OnlyDeriving ==
    jobs = {} /\ \A r \in DOMAIN runs : runs[r].pc \in {"derive", "deriveWait", "done"}

DerivationReturns(r) == runs[r].pc = "derive" /\ runs'[r].derived

\* C15: when the prompt derivation of a run succeeds, the run has issued no render
\* call before, and by the time its first render call (the one for the first
\* platform of the table) is in flight all four platforms are loading, each with
\* its own prompt of the derived prompt set.
C15_AllLoadingBeforeFirstRender ==
    [][\A r \in DOMAIN runs :
          DerivationReturns(r) =>
                /\ JobsOf(jobs, r) = {}
                /\ \A j \in JobsOf(jobs', r) : j.key = PLATFORMS[1].key /\ j.i = 0
                /\ Cardinality(JobsOf(jobs', r)) = 1
                /\ runs'[r].idx = 1
                /\ \A k \in Keys :
                      /\ images'[k].status = "loading"
                      /\ images'[k].prompt = visualPrompts(runs'[r].vp, k)]_vars

C15_Witness ==
    \E r \in DOMAIN runs :
        /\ runs[r].pc = "render" /\ runs[r].idx = 1
        /\ \E j \in JobsOf(jobs, r) : j.key = PLATFORMS[1].key /\ j.st = "op" /\ j.i = 0
        /\ \A k \in Keys :
              /\ images[k].status = "loading"
              /\ images[k].prompt = visualPrompts(runs[r].vp, k)
        /\ images["blog"].imageUrl # NoVal
        /\ images["instagram"].imageUrl = NoVal

(* --------------------------- regenerateOne ----------------------------- *)
\* regenerateOne(k) ran in this step
Regenerates(k) == ev'.op = "regenerateOne" /\ ev'.key = k

\* the render calls that were not in flight before this step
IssuedNow == jobs' \ jobs

\* C16: regenerateOne(k) on a platform with a non-empty prompt issues exactly one
\* render call, for platform k, with the stored prompt and the configured aspect
\* ratio of k; it sets k to loading and changes nothing else of k's record (the
\* stored prompt stays), leaves the other three records and every run as they
\* were, and when that render settles no run enters a pacing delay for it.
C16_RegenerateOneFrame ==
    [][/\ \A k \in Keys :
            (Regenerates(k) /\ NonEmpty(images[k].prompt)) =>
                /\ jobs \subseteq jobs'
                /\ Cardinality(IssuedNow) = 1
                /\ \A j \in IssuedNow :
                      /\ j.key = k
                      /\ j.owner.t = "regen"
                      /\ j.prompt = images[k].prompt
                      /\ j.aspectRatio = ConfiguredAspectRatio(k)
                /\ images'[k] = [images[k] EXCEPT !.status = "loading"]
                /\ \A k2 \in Keys \ {k} : images'[k2] = images[k2]
                /\ runs' = runs
       /\ \A j \in jobs : (j.owner.t = "regen" /\ Gone(j)) => runs' = runs]_vars

C16_Witness ==
    \E j \in jobs :
        /\ ev = Event("regenerateOne", "instagram", FALSE)
        /\ j.owner.t = "regen" /\ j.key = "instagram" /\ j.aspectRatio = "1:1"
        /\ j.prompt = images["instagram"].prompt
        /\ images["instagram"].status = "loading"
        /\ images["instagram"].imageUrl # NoVal
        /\ \E r \in DOMAIN runs : runs[r].pc = "pace"

(* ---------------------- regenerate from a final state ------------------ *)
Final(state) == state.status \in {"success", "error"}

\* a render call for platform k is issued in this step
StartsRenderOf(k) == \E j \in IssuedNow : j.key = k

\* C17 (as claimed): on a platform in success or error, however it got there, a
\* regenerateOne moves the platform to loading and starts a render.
C17_RegenerateAlwaysRestarts ==
    [][\A k \in Keys :
          (Regenerates(k) /\ Final(images[k])) =>
                images'[k].status = "loading" /\ StartsRenderOf(k)]_vars

\* C17 (amended): on a platform in success or error that has a non-empty prompt,
\* regenerateOne is available, and running it moves the platform to loading and
\* starts a render of it; on a platform in error without a prompt (the first
\* derivation failed) regenerateOne is available too but starts nothing.
C17_RegenerateRestartsWithPrompt ==
    [][\A k \in Keys :
          /\ Final(images[k]) => RegenerateEnabled(images[k])
          /\ (Regenerates(k) /\ Final(images[k]) /\ NonEmpty(images[k].prompt)) =>
                images'[k].status = "loading" /\ StartsRenderOf(k)
          /\ (Regenerates(k) /\ images[k].status = "error" /\ ~ NonEmpty(images[k].prompt)) =>
                images'[k].status = "error" /\ ~ StartsRenderOf(k)]_vars

C17_Witness ==
    \E k \in Keys :
        /\ ev = Event("regenerateOne", k, FALSE)
        /\ images[k].status = "loading"
        /\ images[k].errorMsg = AnalyzeFailedMsg
        /\ \E j \in jobs : j.key = k /\ j.owner.t = "regen"
        /\ \A k2 \in Keys \ {k} : images[k2].status = "error"

(* ------------------------- one render, start to end -------------------- *)
SameCall(j0, j) == j0.owner = j.owner /\ j0.key = j.key

\* withRetry gives up on a failure of attempt i: not a quota error, or the last attempt
GivesUp(i, error) == error \notin QuotaShapedErrors \/ i >= DefaultRetries - 1

\* C18: a render call starts with its platform set to loading with the call's
\* prompt; the steps of its retry sequence (a failure that is retried, the end of
\* a backoff) write no record, so a retried quota failure never shows as error;
\* the call ends in one step that writes its platform only, to success with the
\* returned payload or to error, and to error exactly when withRetry gave up.
C18_LoadingThroughRetries ==
    [][/\ \A j \in jobs' :
            (~ \E j0 \in jobs : SameCall(j0, j)) =>
                /\ j.st = "op" /\ j.i = 0
                /\ images'[j.key].status = "loading"
                /\ images'[j.key].prompt = j.prompt
       /\ \A j \in jobs :
            /\ (~ Gone(j) /\ j \notin jobs') => images' = images
            /\ \A error \in RenderErrors :
                  RenderFails(j, error) => (Gone(j) <=> GivesUp(j.i, error))
            /\ Gone(j) =>
                  /\ \A k \in Keys \ {j.key} : images'[k] = images[k]
                  /\ \/ images'[j.key] = [images[j.key] EXCEPT !.status = "success",
                                                                !.imageUrl = dataUri(j.prompt)]
                     \/ images'[j.key] = [images[j.key] EXCEPT !.status = "error",
                                                                !.errorMsg = GenerationFailedMsg]]_vars

C18_Witness ==
    \E j \in jobs :
        /\ j.i = DefaultRetries - 1 /\ j.st = "op"
        /\ images[j.key].status = "loading"
        /\ images[j.key].prompt = j.prompt
        /\ images[j.key].errorMsg = NoVal
        /\ \E k \in Keys : images[k].status = "error" /\ images[k].errorMsg = GenerationFailedMsg
        /\ \E k \in Keys : images[k].status = "success"

(* ----------------------- the content of backend errors ----------------- *)
\* two errors of the same pattern: both quota errors, or neither
SameKind(e1, e2) == (e1 \in QuotaShapedErrors) <=> (e2 \in QuotaShapedErrors)

FixedMessages == {AnalyzeFailedMsg, GenerationFailedMsg}

\* C19: the AssetStates do not depend on the content of a backend error. A step
\* in which a backend call fails with one error is also the step of that call
\* failing with any other error of the same kind (quota or not): both lead to the
\* same state, so two executions that differ only in the errors raised agree on
\* every state; and errorMsg is absent or one of the two fixed messages.
C19_ErrorContentNeverShows ==
    [][/\ \A k \in Keys : images'[k].errorMsg \in FixedMessages \cup {NoVal}
       /\ \A j \in jobs : \A e1 \in RenderErrors :
            RenderFails(j, e1) =>
                \A e2 \in Errors : SameKind(e1, e2) => RenderFails(j, e2)
       /\ \A r \in DOMAIN runs : \A e1 \in DeriveErrors :
            DeriveFails(r, e1) =>
                \A e2 \in Errors : SameKind(e1, e2) => DeriveFails(r, e2)]_vars

C19_Witness ==
    /\ faults = 2
    /\ \E k \in Keys : images[k].status = "error" /\ images[k].errorMsg = GenerationFailedMsg
    /\ \E k \in Keys : images[k].status = "error" /\ images[k].errorMsg = AnalyzeFailedMsg
    /\ \E r \in DOMAIN runs : runs[r].pc = "done" /\ ~ runs[r].derived /\ runs[r].i = 0

(* ------------------------------- pacing -------------------------------- *)
\* C20: when a render of a generateAll run completes, in success or in error, the
\* run starts a pacing wait of 1500 ms with no render of its own in flight; while
\* a pacing wait of the run is pending the run has no render in flight; and every
\* render call of the run after its first is issued by the step in which such a
\* wait of 1500 ms elapses.
C20_PacingBetweenRenders ==
    [][\A r \in DOMAIN runs :
          /\ \A j \in JobsOf(jobs, r) :
                Gone(j) => /\ runs'[r].pc = "pace"
                           /\ runs'[r].timer = 1500
                           /\ JobsOf(jobs', r) = {}
          /\ runs[r].pc = "pace" => JobsOf(jobs, r) = {}
          /\ \A j \in Issued(jobs, JobsOf(jobs', r)) :
                PlatformIndex(j.key) > 1 =>
                    /\ runs[r].pc = "pace"
                    /\ runs[r].timer = 1500
                    /\ runs'[r].timer = 0]_vars

C20_Witness ==
    \E r \in DOMAIN runs :
        /\ runs[r].pc = "pace" /\ runs[r].idx = 3 /\ runs[r].timer = 1500
        /\ images["twitter"].status = "success"
        /\ images["instagram"].status = "error"
        /\ images["blog"].status = "loading"
        /\ jobs = {}

(* ----------------------------- termination ----------------------------- *)
\* run r has returned, and if its derivation succeeded, after the last platform
Returned(r) == runs[r].pc = "done" /\ (runs[r].derived => runs[r].idx = NumPlatforms)

\* C21: provided every backend call eventually returns or fails, every
\* generateAll run returns, and a run whose derivation succeeded returns only
\* after the render of the last platform has settled, whatever renders failed:
\* again and again all runs started so far have returned in this way.
C21_EveryRunReturns == []<>(\A r \in DOMAIN runs : Returned(r))

C21_Witness ==
    /\ Len(runs) = 1 /\ Returned(1) /\ runs[1].derived
    /\ jobs = {} /\ nRegen = 0 /\ faults = 2
    /\ images["linkedin"].status = "error"
    /\ images["twitter"].status = "error"
    /\ images["instagram"].status = "success"
    /\ images["blog"].status = "success"

(* ------------------------- renders of one platform --------------------- *)
RendersOf(k) == {j \in jobs : j.key = k}

\* C22 (as claimed): at any moment at most one render call is in flight for a
\* platform, under every interleaving of generateAll and regenerateOne that the
\* buttons permit.
C22_OneRenderPerPlatform == \A k \in Keys : Cardinality(RendersOf(k)) <= 1

(* ----------------------- malformed derivation answers ------------------ *)
\* the step in which the derivation of run r returns an object that lacks the
\* prompt of some platform
ReturnsMalformed(r) ==
    \/ \E v \in PartialVersions : DeriveReturnsPartial(r, v)
    \/ DeriveReturnsBare(r)

\* C23 (as claimed): when the derivation answer does not hold a prompt for every
\* platform, generateAll marks all four platforms error and issues no render
\* call; no render call is ever in flight with a missing prompt.
C23_MalformedAnswerIsRejected ==
    [][/\ \A r \in DOMAIN runs :
            ReturnsMalformed(r) =>
                /\ \A k \in Keys : images'[k].status = "error"
                /\ JobsOf(jobs', r) = {}
       /\ \A j \in jobs' : NonEmpty(j.prompt)]_vars

(* --------------------------- status transitions ------------------------ *)
AllowedTransitions ==
    { <<"idle", "loading">>, <<"loading", "success">>, <<"loading", "error">>,
      <<"success", "loading">>, <<"error", "loading">> }

\* a generateAll starts a run, and with it a full regeneration, in this step
StartsRun == Len(runs') > Len(runs)

\* the prompt derivation of some run fails for good in this step
DerivationFails == \E r \in DOMAIN runs : runs[r].pc = "derive" /\ runs'[r].pc = "done"

\* a render call of platform k settles in this step
RenderSettles(k) == \E j \in jobs : j.key = k /\ Gone(j)

SuccessfulPlatforms == {k \in Keys : images[k].status = "success"}

\* C25: the bundle of a Download All press holds exactly one file for each
\* platform that is success when the button is pressed, with that platform's
\* image payload, and no other file; the file names are pairwise distinct, and
\* each holds its platform's key and the one timestamp of the press; when no
\* platform is success nothing is downloaded.
C25_BundleOfSuccessfulImages ==
    [][ev'.op = "downloadAll" =>
          LET files == ev'.files
              stamp == ToString(ev'.timestamp)
          IN  /\ SuccessfulPlatforms = {} => ev'.download = NoVal /\ files = <<>>
              /\ SuccessfulPlatforms # {} => NonEmpty(ev'.download)
              /\ Len(files) = Cardinality(SuccessfulPlatforms)
              /\ \A m, n \in DOMAIN files : files[m].name = files[n].name => m = n
              /\ \A k \in SuccessfulPlatforms :
                    \E n \in DOMAIN files :
                        /\ includes(files[n].name, k) /\ includes(files[n].name, stamp)
                        /\ NonEmpty(files[n].data)
                        /\ <<Head(images[k].imageUrl)>> \o files[n].data = images[k].imageUrl
              /\ \A n \in DOMAIN files :
                    /\ \E k \in SuccessfulPlatforms : includes(files[n].name, k)
                    /\ \A t \in Timestamps :
                          includes(files[n].name, ToString(t)) <=> t = ev'.timestamp]_vars

C25_Witness ==
    /\ ev.op = "downloadAll" /\ ev.timestamp = MaxTimestamp
    /\ Len(ev.files) = 2
    /\ images["linkedin"].status = "success" /\ images["instagram"].status = "success"
    /\ images["twitter"].status = "error" /\ images["blog"].status = "loading"

(* ------------------------------- prompts ------------------------------- *)
\* C26 (as claimed): a platform that is loading or success has a non-empty
\* prompt, and so has a platform whose errorMsg is the render-failure message.
C26_ActiveStatusHasPrompt ==
    \A k \in Keys :
        /\ images[k].status \in {"loading", "success"} => NonEmpty(images[k].prompt)
        /\ images[k].errorMsg = GenerationFailedMsg => NonEmpty(images[k].prompt)

\* C27 (as claimed): the image of a platform that is success is the rendering
\* of the prompt stored for that platform, whatever runs and regenerations
\* overlapped.
C27_ImageIsOfStoredPrompt ==
    \A k \in Keys :
        images[k].status = "success" => images[k].imageUrl = dataUri(images[k].prompt)

(* ---------------------------- single writes ----------------------------- *)
\* the table is written for one platform only in this step: no run starts and no
\* derivation returns or fails
SingleWrite == ~StartsRun /\ ~DerivationFails /\ ~ \E r \in DOMAIN runs : DerivationReturns(r)

\* C28: a write for one platform (loading when a render call is issued, success
\* or error when it settles) is merged into the table as it stands: it sets the
\* fields it names in that platform's record, keeps the record's other fields,
\* and leaves the other three records as they are, whichever of a run and an
\* overlapping regenerateOne wrote before it. A step that issues or settles no
\* render call, starts no run and ends no derivation writes nothing.
C28_NoLostUpdates ==
    [][SingleWrite =>
          /\ \A j \in Issued(jobs, jobs') :
                images' = [images EXCEPT ![j.key] =
                              [@ EXCEPT !.status = "loading", !.prompt = j.prompt]]
          /\ \A j \in jobs :
                Gone(j) =>
                    \/ images' = [images EXCEPT ![j.key] =
                                    [@ EXCEPT !.status = "success",
                                              !.imageUrl = dataUri(j.prompt)]]
                    \/ images' = [images EXCEPT ![j.key] =
                                    [@ EXCEPT !.status = "error",
                                              !.errorMsg = GenerationFailedMsg]]
          /\ (Issued(jobs, jobs') = {} /\ \A j \in jobs : ~Gone(j)) => images' = images]_vars

\* a run's write for twitter and a regeneration's writes for linkedin interleaved
C28_Witness ==
    /\ nRegen = 1 /\ Len(runs) = 1 /\ jobs = {}
    /\ runs[1].pc = "pace" /\ runs[1].idx = 2
    /\ images["linkedin"].status = "success"
    /\ images["twitter"].status = "error"
    /\ images["twitter"].errorMsg = GenerationFailedMsg
    /\ images["twitter"].prompt = visualPrompts(1, "twitter")
    /\ images["instagram"].status = "loading" /\ images["blog"].status = "loading"

(* ------------------------- liveness under overlap ----------------------- *)
\* some operation was started: a regeneration needs the prompt of a run
Started == Len(runs) >= 1

\* C29: with every backend call returning or failing and every timer firing,
\* whatever runs and regenerations overlap, again and again every platform is
\* success or error (so a platform that is loading eventually is success or
\* error); and when some operation was started and all of them have returned, no
\* platform is loading or idle.
C29_LoadingEventuallySettles ==
    /\ []<>(Started => \A k \in Keys : Final(images[k]))
    /\ []((Quiescent /\ Started) => \A k \in Keys : Final(images[k]))

\* two overlapping runs and a regeneration have all returned
C29_Witness ==
    /\ Quiescent /\ Len(runs) = MaxRuns /\ nRegen = MaxRegens
    /\ \A r \in DOMAIN runs : runs[r].derived
    /\ \A k \in Keys : Final(images[k])
    /\ \E k \in Keys : images[k].status = "error"

(* ----------------------------- backend load ---------------------------- *)
Deriving_pcs == {"derive", "deriveWait"}

\* C30: a run sends at most 3 derivation requests (one derivation, tried at most
\* 3 times) and at most 3 requests for each platform's render (one render call
\* per platform, in table order, tried at most 3 times), and a regenerateOne at
\* most 3; a render call of a run is in flight only after that run's derivation
\* succeeded.
C30_BoundedBackendLoad ==
    [][/\ \A r \in DOMAIN runs' :
            /\ runs'[r].i + 1 <= 3
            /\ runs'[r].idx > 0 => runs'[r].derived
            /\ \A j \in JobsOf(jobs', r) :
                  /\ runs'[r].derived
                  /\ j.key = PLATFORMS[runs'[r].idx].key
                  /\ j.i + 1 <= 3
            /\ r \in DOMAIN runs =>
                  /\ runs'[r].idx \in {runs[r].idx, runs[r].idx + 1}
                  /\ runs'[r].idx = runs[r].idx + 1 <=> Issued(jobs, JobsOf(jobs', r)) # {}
                  /\ runs[r].pc \notin Deriving_pcs => runs'[r].pc \notin Deriving_pcs
       /\ \A j \in jobs' : j.i + 1 <= 3
       /\ \A j1, j2 \in jobs' : j1.owner = j2.owner => j1 = j2
       /\ Cardinality({j \in Issued(jobs, jobs') : j.owner.t = "regen"})
             = (IF ev'.op = "regenerateOne" /\ ~ev'.declined THEN 1 ELSE 0)]_vars

\* the third request of a run's render call is with the backend
C30_Witness ==
    \E j \in jobs :
        /\ j.owner.t = "run" /\ j.i = 2 /\ j.st = "op"
        /\ runs[j.owner.id].derived /\ runs[j.owner.id].idx = 2

====
